---- MODULE Spec2Model ----
(***************************************************************************)
(* Model of drivers/team/driver.js (TeamDriver): the flow-card run         *)
(* listeners is_playing, has_match_today, match_within_hours,              *)
(* get_next_match and get_current_score, and the pairing session handlers  *)
(* get_competitions, select_competition and get_teams.                     *)
(*                                                                         *)
(* Times are instants in milliseconds.  JavaScript values are tagged       *)
(* records ([kind |-> ...]) so that values of different JavaScript types   *)
(* can be compared.                                                        *)
(***************************************************************************)
EXTENDS Integers, Sequences, FiniteSets

\* now                  what new Date() gives (driver.js:37, 84, 121)
\* ticks                how often the clock has advanced
\* matchManager         this.homey.app.matchManager (driver.js:28): undefined, or
\*                      what its three queries answer for the device's team
\* device               args.device: teamId and the match_status capability
\* awaiting             the match_within_hours or get_next_match run that is
\*                      suspended at its await (driver.js:82, 111), with what the
\*                      run read before it; NoCall when none is
\* last                 the listener run the latest step completed, with its
\*                      arguments and outcome; NoCall when the step completed none
\* apiKeySetting        whether homey.settings holds an apiKey (driver.js:192)
\* paired[s]            whether onPair(s) has run
\* capturedApiKey[s]    onPair's const apiKey, as a truth value
\* selectedCompetition[s]  onPair's let selectedCompetition (driver.js:189)
\* pendingCompetitions[s]  how many get_competitions runs await the API
\*                      (driver.js:207)
\* pendingViews[s]      how many select_competition runs await showView
\*                      (driver.js:220)
\* pendingTeams[s]      the codes of the getCompetitionTeams requests get_teams
\*                      is awaiting (driver.js:233)
\* selections[s]        the competition the frontend passed to the session's
\*                      latest select_competition call (history)
\* pairResult[s]        the handler that completed last in session s, and how
VARIABLES now, ticks, matchManager, device, awaiting, last,
          apiKeySetting, paired, capturedApiKey, selectedCompetition,
          pendingCompetitions, pendingViews, pendingTeams, selections, pairResult

flowVars == <<now, ticks, matchManager, device, awaiting, last>>
pairVars == <<apiKeySetting, paired, capturedApiKey, selectedCompetition,
              pendingCompetitions, pendingViews, pendingTeams, selections,
              pairResult>>
vars == <<now, ticks, matchManager, device, awaiting, last,
          apiKeySetting, paired, capturedApiKey, selectedCompetition,
          pendingCompetitions, pendingViews, pendingTeams, selections, pairResult>>

----------------------------------------------------------------------------
(* Bounds of the model *)

\* the instant the clock shows in the initial state (ms)
T0 == 10000000
\* how many times the clock advances
MaxTicks == 1
\* pairing sessions opened by the host
NumSessions == 2
\* runs of one handler of one session suspended at its await at the same time
MaxPending == 1

----------------------------------------------------------------------------
(* JavaScript values *)

Undefined == [kind |-> "undefined"]
Null == [kind |-> "null"]
NaN == [kind |-> "NaN"]
Bool(b) == [kind |-> "boolean", b |-> b]
Num(n) == [kind |-> "number", n |-> n]
\* a string of decimal digits, e.g. "57" is Str(<<5, 7>>)
Str(digits) == [kind |-> "string", chars |-> digits]
\* a text constant of the program or of the provider's data
Text(s) == [kind |-> "text", s |-> s]
\* an ISO timestamp denoting the instant ms
IsoDate(ms) == [kind |-> "isodate", ms |-> ms]
\* the quotient num / den of two integers, den > 0 (a JavaScript number)
Quot(num, den) == [kind |-> "quotient", num |-> num, den |-> den]

\* JavaScript truthiness (the operand of !x, x || y, if (x))
Truthy(v) ==
    CASE v.kind = "undefined" -> FALSE
      [] v.kind = "null" -> FALSE
      [] v.kind = "NaN" -> FALSE
      [] v.kind = "boolean" -> v.b
      [] v.kind = "number" -> v.n # 0
      [] v.kind = "string" -> Len(v.chars) > 0
      [] v.kind = "text" -> v.s # ""
      [] OTHER -> TRUE

\* x || y
Or(x, y) == IF Truthy(x) THEN x ELSE y

\* x ?? y
Nullish(x, y) == IF x.kind \in {"undefined", "null"} THEN y ELSE x

RECURSIVE DigitsValue(_)
DigitsValue(ds) ==
    IF Len(ds) = 0 THEN 0
    ELSE 10 * DigitsValue(SubSeq(ds, 1, Len(ds) - 1)) + ds[Len(ds)]

\* Number(v)
ToNumber(v) ==
    CASE v.kind = "undefined" -> NaN
      [] v.kind = "null" -> Num(0)
      [] v.kind = "number" -> v
      [] v.kind = "string" -> Num(DigitsValue(v.chars))
      [] OTHER -> NaN

\* a === b for the operands the listeners compare
StrictEquals(a, b) == a.kind # "NaN" /\ a = b

\* new Date(v): the instant in ms, or NaN for an Invalid Date
NewDate(v) ==
    CASE v.kind = "isodate" -> Num(v.ms)
      [] v.kind = "number" -> v
      [] v.kind = "null" -> Num(0)
      [] OTHER -> NaN

\* dateA - dateB
DateDiff(a, b) == IF a.kind = "NaN" \/ b.kind = "NaN" THEN NaN ELSE Num(a.n - b.n)

\* x / d for a positive integer d
Divide(x, d) ==
    CASE x.kind = "NaN" -> NaN
      [] x.kind = "number" -> Quot(x.n, d)
      [] x.kind = "quotient" -> Quot(x.num, x.den * d)

\* x > k and x < k and x <= k for an integer k; every comparison with NaN is false
GreaterThan(x, k) == x.kind = "quotient" /\ x.num > k * x.den
LessThan(x, k) == x.kind = "quotient" /\ x.num < k * x.den
AtMost(x, k) == x.kind = "quotient" /\ x.num <= k * x.den

MathCeilFloor(x) == IF x.kind = "NaN" THEN NaN ELSE Num(x.num \div x.den)
\* Math.ceil(x)
MathCeil(x) == IF x.kind = "NaN" THEN NaN ELSE Num(-((-x.num) \div x.den))

----------------------------------------------------------------------------
(* Units of time, as the listeners divide them out *)

MsPerMinute == 1000 * 60
MsPerHour == 1000 * 60 * 60
MsPerDay == 1000 * 60 * 60 * 24

\* the host's timezone (homey.clock.getTimezone()), as its offset from UTC
TimezoneOffset == 2 * MsPerHour

\* the calendar date of day number z (days since 1970-01-01)
CivilFromDays(days) ==
    LET z == days + 719468
        era == z \div 146097
        doe == z - era * 146097
        yoe == (doe - doe \div 1460 + doe \div 36524 - doe \div 146096) \div 365
        doy == doe - (365 * yoe + yoe \div 4 - yoe \div 100)
        mp == (5 * doy + 2) \div 153
        d == doy - (153 * mp + 2) \div 5 + 1
        m == IF mp < 10 THEN mp + 3 ELSE mp - 9
        y == yoe + era * 400 + (IF m <= 2 THEN 1 ELSE 0)
    IN  [year |-> y, month |-> m, day |-> d]

\* date.toLocaleDateString('en-CA', { timeZone }): yyyy-mm-dd in the host's timezone
ToLocaleDateString(date, tz) ==
    IF date.kind = "NaN" THEN Text("Invalid Date")
    ELSE LET c == CivilFromDays((date.n + tz) \div MsPerDay)
         IN  [kind |-> "yyyy-mm-dd", year |-> c.year, month |-> c.month, day |-> c.day]

\* date.toLocaleTimeString('nl-NL', { hour: '2-digit', minute: '2-digit', timeZone })
ToLocaleTimeString(date, tz) ==
    IF date.kind = "NaN" THEN Text("Invalid Date")
    ELSE LET msOfDay == (date.n + tz) % MsPerDay
         IN  [kind |-> "hh:mm", hour |-> msOfDay \div MsPerHour,
              minute |-> (msOfDay % MsPerHour) \div MsPerMinute]

----------------------------------------------------------------------------
(* The device and the match manager the listeners read *)

\* lib/constants DEVICE_MATCH_STATUS
DEVICE_MATCH_STATUS == [LIVE |-> Text("LIVE"), HALFTIME |-> Text("HALFTIME")]

\* the values of the match_status capability
MatchStatusValues ==
    {DEVICE_MATCH_STATUS.LIVE, DEVICE_MATCH_STATUS.HALFTIME, Text("SCHEDULED")}

\* device.teamId: "57", "66", or missing
TeamIds == {Str(<<5, 7>>), Str(<<6, 6>>), Undefined}

\* this.homey.app.matchManager before the app has created it
NoManager == Undefined

\* a provider query that fails
QueryFails == [kind |-> "throw", message |-> "provider failure"]

TodayMatch(utcDate, kickoffTime) ==
    [kind |-> "match", utcDate |-> utcDate, kickoffTime |-> kickoffTime]

\* what getTeamMatchToday can answer
TodayOutcomes ==
    {Null, Undefined, QueryFails,
     TodayMatch(IsoDate(T0 - 120 * MsPerMinute), Undefined),
     TodayMatch(IsoDate(T0 - 61 * MsPerMinute), Undefined),
     TodayMatch(IsoDate(T0), Undefined),
     TodayMatch(IsoDate(T0 + 1), Undefined),
     TodayMatch(Undefined, IsoDate(T0 - 61 * MsPerMinute)),
     TodayMatch(Undefined, Undefined)}

LiveMatch(homeName, awayName, homeScore, awayScore, minute, status) ==
    [kind |-> "liveMatch", homeTeamName |-> homeName, awayTeamName |-> awayName,
     homeScore |-> homeScore, awayScore |-> awayScore, minute |-> minute,
     status |-> status]

\* what getTeamLiveMatch can answer
LiveOutcomes ==
    {Null, QueryFails,
     LiveMatch(Text("Arsenal FC"), Text("Manchester United FC"), Num(2), Num(1),
               Num(67), Text("IN_PLAY")),
     LiveMatch(Undefined, Undefined, Undefined, Undefined, Undefined, Undefined)}

HomeTeam == [id |-> Num(57), name |-> Text("Arsenal FC"), shortName |-> Text("Arsenal")]
AwayTeam == [id |-> Num(66), name |-> Text("Manchester United FC"), shortName |-> Undefined]

NextMatch(utcDate, competition) ==
    [kind |-> "match", utcDate |-> utcDate, homeTeam |-> HomeTeam,
     awayTeam |-> AwayTeam, competition |-> competition]

PremierLeague == [kind |-> "competition", name |-> Text("Premier League")]

\* what the promise of getTeamNextMatch can settle with
NextOutcomes ==
    {Null, QueryFails,
     NextMatch(IsoDate(T0), PremierLeague),
     NextMatch(IsoDate(T0 + 24 * MsPerHour), PremierLeague),
     NextMatch(IsoDate(T0 + 25 * MsPerHour), PremierLeague),
     NextMatch(IsoDate(T0 + 30 * MsPerHour), PremierLeague),
     NextMatch(IsoDate(T0 + 48 * MsPerHour), PremierLeague),
     NextMatch(IsoDate(T0 + 48 * MsPerHour + 1), PremierLeague),
     NextMatch(Undefined, Undefined)}

Manager(live, today, next) ==
    [kind |-> "manager", live |-> live, today |-> today, next |-> next]

\* the hours argument of match_within_hours
HoursArgs == {24, 48}

\* how far the clock moves in one step (ms)
ClockSteps == {1, MsPerMinute}

----------------------------------------------------------------------------
(* Outcomes of a run listener: a returned value or a thrown error, with    *)
(* the provider queries the listener made.                                 *)

Return(v, q) == [kind |-> "return", value |-> v, queries |-> q]
Throw(msg, q) == [kind |-> "throw", message |-> msg, queries |-> q]

----------------------------------------------------------------------------
(* The flow-card run listeners, each as a function of the device, the      *)
(* match manager and the clock at the time it runs.                        *)

ProbablyLiveClosed(minutesSinceKickoff) ==
    ~LessThan(minutesSinceKickoff, 0) /\ AtMost(minutesSinceKickoff, 120)
\* minutesSinceKickoff > 0 && minutesSinceKickoff < 120
ProbablyLive(minutesSinceKickoff) ==
    GreaterThan(minutesSinceKickoff, 0) /\ LessThan(minutesSinceKickoff, 120)

CachedLiveOnlyLive(matchStatus) ==
    StrictEquals(matchStatus, DEVICE_MATCH_STATUS.LIVE)
\* matchStatus === LIVE || matchStatus === HALFTIME
CachedLive(matchStatus) ==
    \/ StrictEquals(matchStatus, DEVICE_MATCH_STATUS.LIVE)
    \/ StrictEquals(matchStatus, DEVICE_MATCH_STATUS.HALFTIME)

\* the is_playing condition
IsPlaying(dev, mm, t) ==
    LET matchStatus == dev.match_status
        qLive == <<"getTeamLiveMatch">>
        qToday == <<"getTeamLiveMatch", "getTeamMatchToday">>
    IN
    IF CachedLive(matchStatus) THEN Return(Bool(TRUE), <<>>)
    ELSE IF ~Truthy(mm) THEN Return(Bool(FALSE), <<>>)
    ELSE IF mm.live.kind = "throw" THEN Throw(mm.live.message, qLive)
    ELSE IF Truthy(mm.live) THEN Return(Bool(TRUE), qLive)
    ELSE IF mm.today.kind = "throw" THEN Throw(mm.today.message, qToday)
    ELSE IF Truthy(mm.today) THEN
        LET kickoffTime == NewDate(Or(mm.today.utcDate, mm.today.kickoffTime))
            minutesSinceKickoff ==
                Divide(Divide(DateDiff(Num(t), kickoffTime), 1000), 60)
        IN  IF ProbablyLive(minutesSinceKickoff)
            THEN Return(Bool(TRUE), qToday)
            ELSE Return(Bool(FALSE), qToday)
    ELSE Return(Bool(FALSE), qToday)

\* the has_match_today condition
HasMatchToday(dev, mm) ==
    LET q == IF Truthy(mm) THEN <<"getTeamMatchToday">> ELSE <<>>
        matchToday == IF Truthy(mm) THEN mm.today ELSE Undefined
    IN
    IF matchToday.kind = "throw" THEN Throw(matchToday.message, q)
    ELSE Return(Bool(matchToday # Null), q)

WithinHoursExclusive(hoursUntil, hours) ==
    LessThan(hoursUntil, hours) /\ GreaterThan(hoursUntil, 0)
\* hoursUntil <= args.hours && hoursUntil > 0
WithinHours(hoursUntil, hours) ==
    AtMost(hoursUntil, hours) /\ GreaterThan(hoursUntil, 0)

\* matchManager?.getTeamNextMatch(device.teamId): what the awaited value will
\* be, fixed when the query is made
NextMatchQuery(mm) == IF Truthy(mm) THEN mm.next ELSE Undefined
NextMatchQueries(mm) == IF Truthy(mm) THEN <<"getTeamNextMatch">> ELSE <<>>

\* the match_within_hours condition from its await on: nextMatch is what the
\* await gives, q the queries made before it, t the clock read after it
MatchWithinHours(nextMatch, q, t, hours) ==
    IF nextMatch.kind = "throw" THEN Throw(nextMatch.message, q)
    ELSE IF ~Truthy(nextMatch) THEN Return(Bool(FALSE), q)
    ELSE LET hoursUntil ==
                 Divide(Divide(Divide(
                     DateDiff(NewDate(nextMatch.utcDate), Num(t)), 1000), 60), 60)
         IN  Return(Bool(WithinHours(hoursUntil, hours)), q)

\* if (!nextMatch) throw new Error('No upcoming match found')
NoNextMatch(q) == Throw("No upcoming match found", q)

\* the get_next_match action from its await on: nextMatch is what the await
\* gives, q the queries made before it, t the clock read after it
GetNextMatch(dev, nextMatch, q, t) ==
    IF nextMatch.kind = "throw" THEN Throw(nextMatch.message, q)
    ELSE IF ~Truthy(nextMatch) THEN NoNextMatch(q)
    ELSE LET isHome == StrictEquals(nextMatch.homeTeam.id, ToNumber(dev.teamId))
             opponent == IF isHome THEN nextMatch.awayTeam ELSE nextMatch.homeTeam
             matchDate == NewDate(nextMatch.utcDate)
             timezone == TimezoneOffset
             daysUntil ==
                 MathCeil(Divide(Divide(Divide(Divide(
                     DateDiff(matchDate, Num(t)), 1000), 60), 60), 24))
             competitionName ==
                 IF nextMatch.competition.kind \in {"undefined", "null"}
                 THEN Undefined ELSE nextMatch.competition.name
         IN  Return([kind |-> "fixture",
                     opponent |-> Or(opponent.shortName, opponent.name),
                     date |-> ToLocaleDateString(matchDate, timezone),
                     time |-> ToLocaleTimeString(matchDate, timezone),
                     competition |-> Or(competitionName, Text("")),
                     venue |-> IF isHome THEN Text("Home") ELSE Text("Away"),
                     is_home |-> Bool(isHome),
                     days_until |-> daysUntil], q)

\* `${homeScore}-${awayScore}`
ScoreText(homeScore, awayScore) ==
    [kind |-> "score", home |-> homeScore, away |-> awayScore]

IdleSnapshotUnsetFields ==
    [kind |-> "snapshot", home_team |-> Text(""), away_team |-> Text(""),
     home_score |-> Num(0), away_score |-> Num(0),
     score |-> Text("No live match"), minute |-> Undefined,
     status |-> Undefined, is_live |-> Bool(FALSE)]
\* the record get_current_score returns when there is no live match
IdleSnapshot ==
    [kind |-> "snapshot", home_team |-> Text(""), away_team |-> Text(""),
     home_score |-> Num(0), away_score |-> Num(0),
     score |-> Text("No live match"), minute |-> Num(0),
     status |-> Text("IDLE"), is_live |-> Bool(FALSE)]

\* the get_current_score action
GetCurrentScore(dev, mm) ==
    LET q == <<"getTeamLiveMatch">> IN
    IF ~Truthy(mm) THEN Throw("MatchManager not available", <<>>)
    ELSE IF mm.live.kind = "throw" THEN Throw(mm.live.message, q)
    ELSE IF ~Truthy(mm.live) THEN Return(IdleSnapshot, q)
    ELSE LET liveMatch == mm.live
             homeScore == Nullish(liveMatch.homeScore, Num(0))
             awayScore == Nullish(liveMatch.awayScore, Num(0))
         IN  Return([kind |-> "snapshot",
                     home_team |-> Or(liveMatch.homeTeamName, Text("")),
                     away_team |-> Or(liveMatch.awayTeamName, Text("")),
                     home_score |-> homeScore,
                     away_score |-> awayScore,
                     score |-> ScoreText(homeScore, awayScore),
                     minute |-> Or(liveMatch.minute, Num(0)),
                     status |-> Or(liveMatch.status, Text("UNKNOWN")),
                     is_live |-> Bool(TRUE)], q)

----------------------------------------------------------------------------
(* The flow cards as a state machine: the host runs a listener, and        *)
(* between two runs the clock, the match manager and the device's cached   *)
(* status change.                                                          *)

NoCall == [op |-> "none"]
\* a completed run of a listener that does not await
Call(op, hours, result) == [op |-> op, hours |-> hours, result |-> result]
\* a run suspended at its await: what the awaited query will give, and the
\* queries made
Suspended(op, hours, answer, queries) ==
    [op |-> op, hours |-> hours, answer |-> answer, queries |-> queries]
\* a completed run of a listener that awaited: answer is what the await gave
Resumed(op, hours, answer, result) ==
    [op |-> op, hours |-> hours, answer |-> answer, result |-> result]

FlowInit ==
    /\ now = T0
    /\ ticks = 0
    /\ matchManager = NoManager
    /\ device \in [teamId : TeamIds, match_status : {Null}]
    /\ awaiting = NoCall
    /\ last = NoCall

\* time passes
ClockAdvance(d) ==
    /\ ticks < MaxTicks
    /\ now' = now + d
    /\ ticks' = ticks + 1
    /\ last' = NoCall
    /\ UNCHANGED <<matchManager, device, awaiting>>
    /\ UNCHANGED pairVars

\* the app creates its match manager
ManagerCreated ==
    /\ matchManager = NoManager
    /\ matchManager' = Manager(Null, Null, Null)
    /\ last' = NoCall
    /\ UNCHANGED <<now, ticks, device, awaiting>>
    /\ UNCHANGED pairVars

\* the match manager's data about the team changes
ProviderLive(m) ==
    /\ matchManager # NoManager
    /\ matchManager' = [matchManager EXCEPT !.live = m]
    /\ last' = NoCall
    /\ UNCHANGED <<now, ticks, device, awaiting>>
    /\ UNCHANGED pairVars

ProviderToday(m) ==
    /\ matchManager # NoManager
    /\ matchManager' = [matchManager EXCEPT !.today = m]
    /\ last' = NoCall
    /\ UNCHANGED <<now, ticks, device, awaiting>>
    /\ UNCHANGED pairVars

ProviderNext(m) ==
    /\ matchManager # NoManager
    /\ matchManager' = [matchManager EXCEPT !.next = m]
    /\ last' = NoCall
    /\ UNCHANGED <<now, ticks, device, awaiting>>
    /\ UNCHANGED pairVars

\* the device stores a new match_status capability value
SetMatchStatus(status) ==
    /\ device' = [device EXCEPT !.match_status = status]
    /\ last' = NoCall
    /\ UNCHANGED <<now, ticks, matchManager, awaiting>>
    /\ UNCHANGED pairVars

RunIsPlaying ==
    /\ last' = Call("is_playing", 0, IsPlaying(device, matchManager, now))
    /\ UNCHANGED <<now, ticks, matchManager, device, awaiting>>
    /\ UNCHANGED pairVars

RunHasMatchToday ==
    /\ last' = Call("has_match_today", 0, HasMatchToday(device, matchManager))
    /\ UNCHANGED <<now, ticks, matchManager, device, awaiting>>
    /\ UNCHANGED pairVars

\* match_within_hours up to its await (driver.js:80-82): the query is made,
\* or skipped without a manager, and the run suspends either way
CallMatchWithinHours(hours) ==
    /\ awaiting = NoCall
    /\ awaiting' = Suspended("match_within_hours", hours,
                             NextMatchQuery(matchManager),
                             NextMatchQueries(matchManager))
    /\ last' = NoCall
    /\ UNCHANGED <<now, ticks, matchManager, device>>
    /\ UNCHANGED pairVars

\* match_within_hours after its await (driver.js:83-85)
ResumeMatchWithinHours ==
    /\ awaiting.op = "match_within_hours"
    /\ last' = Resumed("match_within_hours", awaiting.hours, awaiting.answer,
                       MatchWithinHours(awaiting.answer, awaiting.queries, now,
                                        awaiting.hours))
    /\ awaiting' = NoCall
    /\ UNCHANGED <<now, ticks, matchManager, device>>
    /\ UNCHANGED pairVars

\* get_next_match up to its await (driver.js:104-111): without a manager it
\* throws at once, otherwise the query is made and the run suspends
CallGetNextMatch ==
    /\ awaiting = NoCall
    /\ IF ~Truthy(matchManager)
       THEN /\ last' = Resumed("get_next_match", 0, Undefined,
                               Throw("MatchManager not available", <<>>))
            /\ UNCHANGED awaiting
       ELSE /\ awaiting' = Suspended("get_next_match", 0,
                                     NextMatchQuery(matchManager),
                                     NextMatchQueries(matchManager))
            /\ last' = NoCall
    /\ UNCHANGED <<now, ticks, matchManager, device>>
    /\ UNCHANGED pairVars

\* get_next_match after its await (driver.js:113-140)
ResumeGetNextMatch ==
    /\ awaiting.op = "get_next_match"
    /\ last' = Resumed("get_next_match", 0, awaiting.answer,
                       GetNextMatch(device, awaiting.answer, awaiting.queries, now))
    /\ awaiting' = NoCall
    /\ UNCHANGED <<now, ticks, matchManager, device>>
    /\ UNCHANGED pairVars

RunGetCurrentScore ==
    /\ last' = Call("get_current_score", 0, GetCurrentScore(device, matchManager))
    /\ UNCHANGED <<now, ticks, matchManager, device, awaiting>>
    /\ UNCHANGED pairVars

\* the listeners that complete without awaiting, with everything the
\* environment can change between two runs
FlowNext ==
    \/ \E d \in ClockSteps : ClockAdvance(d)
    \/ ManagerCreated
    \/ \E m \in LiveOutcomes : ProviderLive(m)
    \/ \E m \in TodayOutcomes : ProviderToday(m)
    \/ \E m \in NextOutcomes : ProviderNext(m)
    \/ \E status \in MatchStatusValues : SetMatchStatus(status)
    \/ RunIsPlaying
    \/ RunHasMatchToday
    \/ RunGetCurrentScore

\* the two listeners that await getTeamNextMatch, one run at a time (runs
\* share no state and write none), with what the environment can change of
\* the things they read: the clock, the manager and its next match
FixtureNext ==
    \/ \E d \in ClockSteps : ClockAdvance(d)
    \/ ManagerCreated
    \/ \E m \in NextOutcomes : ProviderNext(m)
    \/ \E hours \in HoursArgs : CallMatchWithinHours(hours)
    \/ ResumeMatchWithinHours
    \/ CallGetNextMatch
    \/ ResumeGetNextMatch

----------------------------------------------------------------------------
(* Pairing: onPair gives every session its own selectedCompetition and its *)
(* own copy of the API key, and registers three handlers on the session.   *)

Sessions == 1 .. NumSessions

Eredivisie == [kind |-> "competition", name |-> Text("Eredivisie"), code |-> Text("DED")]
PremierLeagueListed ==
    [kind |-> "competition", name |-> Text("Premier League"), code |-> Text("PL")]

\* what api.getCompetitions() lists
Competitions == {Eredivisie, PremierLeagueListed}

\* what the frontend can pass to select_competition
SelectArgs == Competitions \cup {Null}

ApiTeam(id, name, shortName, tla) ==
    [id |-> Num(id), name |-> Text(name), shortName |-> Text(shortName),
     tla |-> Text(tla), crest |-> Text("crest")]

\* result.teams of api.getCompetitionTeams(code)
TeamsOf(code) ==
    IF code = Text("PL")
    THEN <<ApiTeam(57, "Arsenal FC", "Arsenal", "ARS"),
           ApiTeam(66, "Manchester United FC", "Man United", "MUN")>>
    ELSE <<ApiTeam(678, "AFC Ajax", "Ajax", "AJA")>>

\* how a request to the API can settle
ApiOutcomes == {"ok", "fails"}

\* one entry of the list get_teams returns
TeamEntry(team, competition) ==
    [id |-> team.id, name |-> team.name, shortName |-> team.shortName,
     tla |-> team.tla, crest |-> team.crest,
     competition |-> competition.name, competitionCode |-> competition.code]

\* result.teams.map(team => ({ ..., competition, competitionCode }))
MapTeams(teams, competition) ==
    [i \in 1 .. Len(teams) |-> TeamEntry(teams[i], competition)]

RemoveAt(seq, i) == SubSeq(seq, 1, i - 1) \o SubSeq(seq, i + 1, Len(seq))

PairCall(op, result) == [op |-> op, result |-> result]

PairInit ==
    /\ apiKeySetting = FALSE
    /\ paired = [s \in Sessions |-> FALSE]
    /\ capturedApiKey = [s \in Sessions |-> FALSE]
    /\ selectedCompetition = [s \in Sessions |-> Null]
    /\ pendingCompetitions = [s \in Sessions |-> 0]
    /\ pendingViews = [s \in Sessions |-> 0]
    /\ pendingTeams = [s \in Sessions |-> <<>>]
    /\ selections = [s \in Sessions |-> Null]
    /\ pairResult = [s \in Sessions |-> NoCall]

\* the user stores an API key in the app settings
ConfigureApiKey ==
    /\ ~apiKeySetting
    /\ apiKeySetting' = TRUE
    /\ UNCHANGED <<paired, capturedApiKey, selectedCompetition, pendingCompetitions,
                   pendingViews, pendingTeams, selections, pairResult>>
    /\ UNCHANGED flowVars

\* onPair(session)
OnPair(s) ==
    /\ ~paired[s]
    /\ paired' = [paired EXCEPT ![s] = TRUE]
    /\ selectedCompetition' = [selectedCompetition EXCEPT ![s] = Null]
    /\ capturedApiKey' = [capturedApiKey EXCEPT ![s] = apiKeySetting]
    /\ UNCHANGED <<apiKeySetting, pendingCompetitions, pendingViews, pendingTeams,
                   selections, pairResult>>
    /\ UNCHANGED flowVars

\* the get_competitions handler up to its await: the key check and the request
GetCompetitionsCall(s) ==
    /\ paired[s]
    /\ IF ~capturedApiKey[s]
       THEN /\ pairResult' = [pairResult EXCEPT ![s] =
                  PairCall("get_competitions",
                     Throw("Please configure your API key in app settings first",
                           <<>>))]
            /\ UNCHANGED pendingCompetitions
       ELSE /\ pendingCompetitions[s] < MaxPending
            /\ pendingCompetitions' = [pendingCompetitions EXCEPT ![s] = @ + 1]
            /\ UNCHANGED pairResult
    /\ UNCHANGED <<apiKeySetting, paired, capturedApiKey, selectedCompetition,
                   pendingViews, pendingTeams, selections>>
    /\ UNCHANGED flowVars

\* the get_competitions handler after its await: the API answers or fails
GetCompetitionsSettle(s, outcome) ==
    /\ pendingCompetitions[s] > 0
    /\ pendingCompetitions' = [pendingCompetitions EXCEPT ![s] = @ - 1]
    /\ pairResult' = [pairResult EXCEPT ![s] =
          PairCall("get_competitions",
             IF outcome = "fails"
             THEN Throw("api failure", <<"getCompetitions">>)
             ELSE Return(Competitions, <<"getCompetitions">>))]
    /\ UNCHANGED <<apiKeySetting, paired, capturedApiKey, selectedCompetition,
                   pendingViews, pendingTeams, selections>>
    /\ UNCHANGED flowVars

\* the select_competition handler up to its await: the assignment and the
\* call of session.showView
SelectCompetitionCall(s, competition) ==
    /\ paired[s]
    /\ IF competition.kind \in {"null", "undefined"}
       THEN \* competition.name throws before the assignment
            /\ pairResult' = [pairResult EXCEPT ![s] =
                  PairCall("select_competition", Throw("TypeError", <<>>))]
            /\ UNCHANGED <<selectedCompetition, selections, pendingViews>>
       ELSE /\ pendingViews[s] < MaxPending
            /\ selectedCompetition' = [selectedCompetition EXCEPT ![s] = competition]
            /\ selections' = [selections EXCEPT ![s] = competition]
            /\ pendingViews' = [pendingViews EXCEPT ![s] = @ + 1]
            /\ UNCHANGED pairResult
    /\ UNCHANGED <<apiKeySetting, paired, capturedApiKey, pendingCompetitions,
                   pendingTeams>>
    /\ UNCHANGED flowVars

\* the select_competition handler after its await: showView settles
SelectCompetitionSettle(s, showView) ==
    /\ pendingViews[s] > 0
    /\ pendingViews' = [pendingViews EXCEPT ![s] = @ - 1]
    /\ pairResult' = [pairResult EXCEPT ![s] =
          PairCall("select_competition",
             IF showView = "fails" THEN Throw("showView failure", <<>>)
             ELSE Return(Undefined, <<>>))]
    /\ UNCHANGED <<apiKeySetting, paired, capturedApiKey, selectedCompetition,
                   pendingCompetitions, pendingTeams, selections>>
    /\ UNCHANGED flowVars

\* the get_teams handler up to its await: the check and the request to the API
GetTeamsCall(s) ==
    /\ paired[s]
    /\ IF ~Truthy(selectedCompetition[s])
       THEN /\ pairResult' = [pairResult EXCEPT ![s] =
                  PairCall("get_teams", Throw("No competition selected", <<>>))]
            /\ UNCHANGED pendingTeams
       ELSE /\ Len(pendingTeams[s]) < MaxPending
            /\ pendingTeams' = [pendingTeams EXCEPT ![s] =
                  Append(@, selectedCompetition[s].code)]
            /\ UNCHANGED pairResult
    /\ UNCHANGED <<apiKeySetting, paired, capturedApiKey, selectedCompetition,
                   pendingCompetitions, pendingViews, selections>>
    /\ UNCHANGED flowVars

\* the get_teams handler after its await: the i-th request of the session settles
GetTeamsSettle(s, i, outcome) ==
    /\ i \in 1 .. Len(pendingTeams[s])
    /\ LET code == pendingTeams[s][i] IN
       pairResult' = [pairResult EXCEPT ![s] =
          PairCall("get_teams",
             IF outcome = "fails" THEN Throw("api failure", <<code>>)
             ELSE Return(MapTeams(TeamsOf(code), selectedCompetition[s]), <<code>>))]
    /\ pendingTeams' = [pendingTeams EXCEPT ![s] = RemoveAt(@, i)]
    /\ UNCHANGED <<apiKeySetting, paired, capturedApiKey, selectedCompetition,
                   pendingCompetitions, pendingViews, selections>>
    /\ UNCHANGED flowVars

PairNext ==
    \/ ConfigureApiKey
    \/ \E s \in Sessions : OnPair(s)
    \/ \E s \in Sessions : GetCompetitionsCall(s)
    \/ \E s \in Sessions, outcome \in ApiOutcomes : GetCompetitionsSettle(s, outcome)
    \/ \E s \in Sessions, c \in SelectArgs : SelectCompetitionCall(s, c)
    \/ \E s \in Sessions, showView \in ApiOutcomes :
          SelectCompetitionSettle(s, showView)
    \/ \E s \in Sessions : GetTeamsCall(s)
    \/ \E s \in Sessions, i \in 1 .. MaxPending, outcome \in ApiOutcomes :
          GetTeamsSettle(s, i, outcome)

----------------------------------------------------------------------------
(* Specifications *)

Init == FlowInit /\ PairInit

\* the flow cards of one device that do not await
Next == FlowNext
Spec == Init /\ [][Next]_vars

\* the flow cards of one device that await the next match
FixtureSpec == Init /\ [][FixtureNext]_vars

\* the pairing sessions, beside a device that is already paired
PairSpecInit == Init /\ device.teamId = Str(<<5, 7>>)
PairSpec == PairSpecInit /\ [][PairNext]_vars

----------------------------------------------------------------------------
(* Properties *)

ManagerPresent == matchManager.kind = "manager"

\* the instants a today-match record gives for its kickoff: utcDate, or
\* kickoffTime when utcDate is missing
KickoffInstants(m) ==
    IF m.kind # "match" THEN {}
    ELSE IF m.utcDate.kind = "isodate" THEN {m.utcDate.ms}
    ELSE IF m.kickoffTime.kind = "isodate" THEN {m.kickoffTime.ms}
    ELSE {}

IsPlayingRan == last.op = "is_playing"

CachedStatusLive ==
    device.match_status \in {DEVICE_MATCH_STATUS.LIVE, DEVICE_MATCH_STATUS.HALFTIME}

\* C1: whenever the cached status is LIVE or HALFTIME, is_playing returns true
\* whatever the match manager is or holds, and it makes no provider query.
C1_CachedLiveFastPath ==
    (IsPlayingRan /\ CachedStatusLive)
        => last.result = [kind |-> "return", value |-> Bool(TRUE), queries |-> <<>>]

\* C1 witness: cached HALFTIME, a manager whose queries would fail or say
\* "not live", and is_playing answered true.
C1_Witness ==
    /\ IsPlayingRan
    /\ device.match_status = DEVICE_MATCH_STATUS.HALFTIME
    /\ ManagerPresent
    /\ matchManager.live = QueryFails
    /\ matchManager.today = TodayMatch(IsoDate(T0 - 120 * MsPerMinute), Undefined)
    /\ last.result.kind = "return"
    /\ last.result.value = Bool(TRUE)

\* C2: with a cached status that is not LIVE/HALFTIME and a provider that
\* reports no live match, is_playing returns true exactly when the provider
\* reports a match today whose kickoff lies strictly between 0 and 120
\* minutes in the past.
C2_TodayWindowOpenInterval ==
    (/\ IsPlayingRan
     /\ ~CachedStatusLive
     /\ ManagerPresent
     /\ matchManager.live = Null
     /\ matchManager.today # QueryFails)
        => /\ last.result.kind = "return"
           /\ last.result.value =
                 Bool(\E k \in KickoffInstants(matchManager.today) :
                         /\ now - k > 0
                         /\ now - k < 120 * MsPerMinute)

\* C2 witness: kickoff exactly 120 minutes ago, and is_playing answered false.
C2_Witness ==
    /\ IsPlayingRan
    /\ ~CachedStatusLive
    /\ ManagerPresent
    /\ matchManager.live = Null
    /\ KickoffInstants(matchManager.today) = {now - 120 * MsPerMinute}
    /\ last.result.kind = "return"
    /\ last.result.value = Bool(FALSE)

\* C3 (as claimed): is_playing always completes with a boolean, and with
\* false when the cached status is not LIVE/HALFTIME and the provider is
\* unavailable or one of its queries failed.
C3_NeverPropagatesProviderError ==
    IsPlayingRan
        => /\ last.result.kind = "return"
           /\ last.result.value \in {Bool(TRUE), Bool(FALSE)}
           /\ (/\ ~CachedStatusLive
               /\ \/ ~ManagerPresent
                  \/ matchManager.live = QueryFails
                  \/ (matchManager.live = Null /\ matchManager.today = QueryFails))
                 => last.result.value = Bool(FALSE)

GetNextMatchRan == last.op = "get_next_match"

\* the run that completed had a match manager to query: get_next_match and
\* match_within_hours record the query exactly then
ManagerAnswered == last.result.queries = <<"getTeamNextMatch">>

\* C4 (as claimed): with a reachable provider that reports no next match,
\* get_next_match completes with the result none, and it ends in an error
\* only when the provider is unavailable or its fetch fails.
C4_NoFixtureIsNotAnError ==
    GetNextMatchRan
        => /\ (ManagerAnswered /\ last.answer = Null)
                 => (last.result.kind = "return" /\ last.result.value = Null)
           /\ last.result.kind = "throw"
                 => (~ManagerAnswered \/ last.answer = QueryFails)

\* the instants the next-match query gave the completed run for the kickoff
\* (none without a manager, without a next match, or with a failed query)
NextKickoff(answer) ==
    IF answer.kind = "match" /\ answer.utcDate.kind = "isodate"
    THEN {answer.utcDate.ms} ELSE {}

\* C5: match_within_hours returns true exactly when its query gave a next
\* fixture and 0 < hoursUntilKickoff <= hours, measured at the clock the run
\* reads after its await; it returns false without a match manager and
\* without a next fixture.
C5_WithinHoursIffInWindow ==
    (/\ last.op = "match_within_hours"
     /\ last.answer # QueryFails)
        => /\ last.result.kind = "return"
           /\ last.result.value =
                 Bool(\E k \in NextKickoff(last.answer) :
                         /\ k - now > 0
                         /\ k - now <= last.hours * MsPerHour)

\* C5 witness: kickoff exactly 48 hours away with a threshold of 48 hours,
\* answered true.
C5_Witness ==
    /\ last.op = "match_within_hours"
    /\ last.hours = 48
    /\ NextKickoff(last.answer) = {now + 48 * MsPerHour}
    /\ last.result.kind = "return"
    /\ last.result.value = Bool(TRUE)

GetCurrentScoreRan == last.op = "get_current_score"

\* the idle record, field by field
IsIdleRecord(v) ==
    /\ v.kind = "snapshot"
    /\ v.home_team = Text("")
    /\ v.away_team = Text("")
    /\ v.home_score = Num(0)
    /\ v.away_score = Num(0)
    /\ v.score = Text("No live match")
    /\ v.minute = Num(0)
    /\ v.status = Text("IDLE")
    /\ v.is_live = Bool(FALSE)

\* C6 (as claimed): for a team with no live match (none reported, or no
\* match manager to report one) get_current_score returns the idle record
\* and never ends in an error.
C6_IdleSnapshotAlways ==
    (/\ GetCurrentScoreRan
     /\ ManagerPresent => matchManager.live = Null)
        => /\ last.result.kind = "return"
           /\ IsIdleRecord(last.result.value)

\* C6 (amended): when an available match manager reports no live match,
\* get_current_score returns the idle record whatever the cached status, the
\* match today and the next fixture are; without a match manager it ends in
\* the error 'MatchManager not available'.
C6_IdleSnapshotWhenManagerReportsNone ==
    GetCurrentScoreRan
        => /\ (ManagerPresent /\ matchManager.live = Null)
                 => (last.result.kind = "return" /\ IsIdleRecord(last.result.value))
           /\ ~ManagerPresent
                 => (/\ last.result.kind = "throw"
                     /\ last.result.message = "MatchManager not available")

\* C6 witness: cached status LIVE, a match today and a next fixture, no live
\* match, and get_current_score ran.
C6_Witness ==
    /\ GetCurrentScoreRan
    /\ ManagerPresent
    /\ matchManager.live = Null
    /\ matchManager.today.kind = "match"
    /\ matchManager.next.kind = "match"
    /\ device.match_status = DEVICE_MATCH_STATUS.LIVE
    /\ last.result.kind = "return"

\* C7: days_until is the smallest integer n with n days >= kickoff - now, for
\* the kickoff of the fixture the query gave and the clock the run reads
\* after its await.
C7_DaysUntilIsCeiling ==
    (GetNextMatchRan /\ last.result.kind = "return")
        => \A k \in NextKickoff(last.answer) :
              /\ last.result.value.days_until.kind = "number"
              /\ LET n == last.result.value.days_until.n IN
                    /\ n * MsPerDay >= k - now
                    /\ (n - 1) * MsPerDay < k - now

\* C7 witness: a kickoff 25 hours away reported as 2 days.
C7_Witness ==
    /\ GetNextMatchRan
    /\ NextKickoff(last.answer) = {now + 25 * MsPerHour}
    /\ last.result.kind = "return"
    /\ last.result.value.days_until = Num(2)

\* C8 (as claimed): a listener run for a device without team identifier
\* fails with an error.
C8_MissingTeamIdFailsFast ==
    (/\ device.teamId = Undefined
     /\ last.op \in {"is_playing", "match_within_hours", "get_next_match",
                     "get_current_score"})
        => last.result.kind = "throw"

\* C9 (as claimed): has_match_today returns true only if the provider reports
\* a match today, and false without a match manager or without a match today
\* (null or undefined).
C9_HasMatchTodayOnlyWithMatch ==
    (last.op = "has_match_today" /\ last.result.kind = "return")
        => /\ last.result.value = Bool(TRUE)
                 => (ManagerPresent /\ matchManager.today.kind = "match")
           /\ (~ManagerPresent \/ matchManager.today \in {Null, Undefined})
                 => last.result.value = Bool(FALSE)

CompetitionByCode(code) == CHOOSE c \in Competitions : c.code = code

\* C10 (as claimed): in every session, get_teams has a request at the API
\* only after a selection in that session; without one it fails with 'No
\* competition selected' and no request; the teams it returns carry the name
\* and code of the competition they were requested for; and a session's
\* selection is the one made in that session.
C10_TeamsOfSelectedCompetition ==
    \A s \in Sessions :
        /\ Len(pendingTeams[s]) > 0 => selections[s] # Null
        /\ selectedCompetition[s] = selections[s]
        /\ pairResult[s].op = "get_teams" =>
              /\ selections[s] = Null
                    => pairResult[s].result =
                          [kind |-> "throw", message |-> "No competition selected",
                           queries |-> <<>>]
              /\ pairResult[s].result.kind = "return" =>
                    \A i \in 1 .. Len(pairResult[s].result.value) :
                       LET team == pairResult[s].result.value[i]
                           asked == CompetitionByCode(pairResult[s].result.queries[1])
                       IN  /\ team.competitionCode = asked.code
                           /\ team.competition = asked.name

====
